---- MODULE Spec2Model ----
(***************************************************************************)
(* Study-plan allocation and completion engine of the study planner's      *)
(* browser-side API (MockApiService, src/unnamed/part_003 lines 578-1194,  *)
(* the later of the two revisions kept in that file).                      *)
(*                                                                         *)
(* localStorage is the program state: the collections users, subjects,     *)
(* exams, study_plans, progress and the token.  The specifications:        *)
(*   Spec        one browsing context; every handler runs to completion.   *)
(*   SpecTabs    two same-origin browsing contexts sharing localStorage;   *)
(*               a step is one getItem/setItem of a handler.               *)
(*   SpecAlloc   allocateStudyTime, its classifier and the quarter-hour    *)
(*               rounding on inputs drawn from bounded sets.               *)
(*   SpecPlan    generateStudyPlan for an account with any subjects and    *)
(*               exams.                                                    *)
(*   SpecStreak  the streak of AgentService.analyzeProgress over stored    *)
(*               histories of completed sessions.                          *)
(*                                                                         *)
(* Units: a date is a day number, a timestamp is a number of hours         *)
(* (HoursPerDay per day, midnight UTC of day d is d * HoursPerDay), a      *)
(* duration is a number of twentieths of an hour (0.5 h = 10, 0.25 h = 5). *)
(* Durations are computed in exact arithmetic.                             *)
(***************************************************************************)
EXTENDS Integers, Sequences, FiniteSets, TLC

VARIABLES users, subjects, exams, study_plans, progress, token, now, ops, last, tabs

vars == <<users, subjects, exams, study_plans, progress, token, now, ops, last, tabs>>

store == <<users, subjects, exams, study_plans, progress>>

(***************************************************************************)
(* Bounds of the model.                                                    *)
(***************************************************************************)
\* calls that changed a collection, over one behaviour
MaxOps == 2
\* last hour the clock reaches
MaxNow == 264
\* most subjects handed to one allocateStudyTime call
MaxSubjects == 3
\* largest totalHours of a call, in twentieths of an hour (4 h)
MaxTotalHours == 80
\* longest run of days with a completed session in the stored history
MaxRun == 31
\* subjects of the account whose plans are generated on their own
MaxPlanSubjects == 5
\* exams stored for the subjects handed to the classifier on its own
MaxExams == 2
\* generateStudyPlan calls of that account, over one behaviour
MaxPlanOps == 1

(***************************************************************************)
(* Program constants.                                                      *)
(***************************************************************************)
HoursPerDay == 24
\* minHours / minHoursPerSubject = 0.5 h
minHours == 10
\* a quarter of an hour, the rounding step of Math.round(hours * 4) / 4
Quarter == 5
\* the 'no exam' day count
NoExamDays == 999
\* demo data: days of demo plans, exam offsets
DemoDays == 5
DemoExam1Offset == 7
DemoExam2Offset == 14
\* days the streak loop of analyzeProgress looks at
StreakDays == 30

NoToken == 0
Null == -1
Tabs == {1, 2}

\* the clock at construction: noon of day 10
StartNow == 10 * HoursPerDay + 12
\* one step of the clock: half a day
TickHours == HoursPerDay \div 2

(***************************************************************************)
(* Dates.                                                                  *)
(***************************************************************************)
\* new Date('YYYY-MM-DD'): midnight UTC of the day
DateOf(day) == day * HoursPerDay

\* new Date().toISOString().split('T')[0]: the UTC calendar day of a timestamp
IsoDay(t) == t \div HoursPerDay

Today == IsoDay(now)

\* Math.ceil(a / b) for b > 0
CeilDiv(a, b) == -((-a) \div b)

(***************************************************************************)
(* Sequence helpers.                                                       *)
(***************************************************************************)
\* Array.filter: the elements kept by Test, in order
Filter(s, Test(_)) == SelectSeq(s, Test)

Range(s) == {s[i] : i \in 1..Len(s)}

SetMax(S) == CHOOSE m \in S : \A x \in S : x <= m

\* generateId(collection): 1 for an empty collection, else the largest id + 1
generateId(items) ==
  IF Len(items) > 0 THEN SetMax({items[i].id : i \in 1..Len(items)}) + 1 ELSE 1

\* getCurrentUserFromToken(): the user the token names, 0 when there is none
getCurrentUserFromToken ==
  IF token = NoToken THEN NoToken
  ELSE IF \E i \in 1..Len(users) : users[i].id = token THEN token ELSE NoToken

(***************************************************************************)
(* Construction.  localStorage outlives the page: initializeDemoData()     *)
(* stores the demo account and its records when the demo account is        *)
(* missing and leaves the storage alone otherwise.  The initial storage is *)
(* that of a browser holding the demo records and a second account that    *)
(* was registered earlier (register, lines 661-685) and has either no      *)
(* subject or one subject of its own (createSubject, lines 710-726).       *)
(***************************************************************************)
demoUser == [id |-> 1]

demoSubjects == [index \in 1..3 |-> [id |-> index, user_id |-> demoUser.id]]

demoExams ==
  << [id |-> 1, user_id |-> demoUser.id, subject_id |-> demoSubjects[1].id,
      exam_date |-> IsoDay(StartNow) + DemoExam1Offset, priority_level |-> "high"],
     [id |-> 2, user_id |-> demoUser.id, subject_id |-> demoSubjects[2].id,
      exam_date |-> IsoDay(StartNow) + DemoExam2Offset, priority_level |-> "medium"] >>

\* plan number k (1-based) is day i = (k-1) \div 3, subject index (k-1) % 3
demoStudyPlansData ==
  [k \in 1..(DemoDays * 3) |->
     LET i == (k - 1) \div 3
         index == (k - 1) % 3
     IN [id |-> k,
         user_id |-> demoUser.id,
         subject_id |-> demoSubjects[index + 1].id,
         study_date |-> IsoDay(StartNow) + i,
         planned_hours |-> 30 + index * 10,
         topic |-> "chapter",
         is_completed |-> (i = 0 /\ index = 0),
         completed_at |-> IF i = 0 /\ index = 0 THEN StartNow ELSE Null]]

demoProgressData ==
  << [id |-> 1, user_id |-> demoUser.id, study_plan_id |-> demoStudyPlansData[1].id,
      actual_hours |-> 30, notes |-> "demo", completed_at |-> StartNow] >>

\* a browsing context with no call in flight; otherwise pc names the next
\* storage access of the call and the other fields are its local variables
Idle == [pc |-> "idle", user |-> NoToken, id |-> 0, planData |-> <<>>,
         subs |-> <<>>, exs |-> <<>>, plans |-> <<>>, prog |-> <<>>, out |-> <<>>]

\* the latest call: operation, caller, arguments, outcome, returned records;
\* again: the call before it was the same call with the same outcome
NoCall == [op |-> "none", user |-> NoToken, id |-> 0, arg |-> <<>>,
           status |-> "none", ret |-> <<>>, again |-> FALSE]

\* the account registered after the demo account: generateId('users') = 2
secondUser == [id |-> demoUser.id + 1]

\* its subject, when it has one: generateId('subjects') = 4
secondSubject == [id |-> Len(demoSubjects) + 1, user_id |-> secondUser.id]

Init ==
  /\ users = <<demoUser, secondUser>>
  /\ subjects \in {demoSubjects, Append(demoSubjects, secondSubject)}
  /\ exams = demoExams
  /\ study_plans = demoStudyPlansData
  /\ progress = demoProgressData
  /\ token = NoToken
  /\ now = StartNow
  /\ ops = 0
  /\ last = NoCall
  /\ tabs = [t \in Tabs |-> Idle]

(***************************************************************************)
(* markStudyPlanCompleted(studyPlanId)                                     *)
(***************************************************************************)
\* findIndex matching on the id alone
findIndexAnyOwner(plans, id, user) ==
  IF \E i \in 1..Len(plans) : plans[i].id = id
  THEN CHOOSE i \in 1..Len(plans) :
         /\ plans[i].id = id
         /\ \A j \in 1..(i - 1) : plans[j].id # id
  ELSE 0

\* Array.findIndex(plan => plan.id === id && plan.user_id === user): first
\* matching 1-based index, 0 for -1
findIndex(plans, id, user) ==
  IF \E i \in 1..Len(plans) : plans[i].id = id /\ plans[i].user_id = user
  THEN CHOOSE i \in 1..Len(plans) :
         /\ plans[i].id = id /\ plans[i].user_id = user
         /\ \A j \in 1..(i - 1) : ~(plans[j].id = id /\ plans[j].user_id = user)
  ELSE 0

\* the date validation with >= in place of >
NotYetAvailableInclusive(plan, t) == DateOf(plan.study_date) >= t

\* the date validation: new Date(plan.study_date) > new Date()
NotYetAvailable(plan, t) == DateOf(plan.study_date) > t

\* the outcome of the checks of markStudyPlanCompleted on a read of study_plans
CompleteStatus(plans, id, user, t) ==
  IF user = NoToken THEN "not_authenticated"
  ELSE IF findIndex(plans, id, user) = 0 THEN "not_found"
  ELSE IF NotYetAvailable(plans[findIndex(plans, id, user)], t) THEN "not_yet"
  ELSE "ok"

\* marking without the completion timestamp
MarkCompletedUnstamped(plans, planIndex, t) ==
  [plans EXCEPT ![planIndex].is_completed = TRUE]

\* studyPlans[planIndex].is_completed = true; .completed_at = now
MarkCompleted(plans, planIndex, t) ==
  [plans EXCEPT ![planIndex].is_completed = TRUE, ![planIndex].completed_at = t]

\* the record pushed on progress
AutoProgress(newId, user, studyPlanId, plan, t) ==
  [id |-> newId, user_id |-> user, study_plan_id |-> studyPlanId,
   actual_hours |-> plan.planned_hours, notes |-> "auto", completed_at |-> t]

Called(op, user, id, arg, status, ret) ==
  last' = [op |-> op, user |-> user, id |-> id, arg |-> arg, status |-> status,
           ret |-> ret,
           again |-> (last.op = op /\ last.user = user /\ last.id = id
                      /\ last.arg = arg /\ last.status = status)]

markStudyPlanCompleted(studyPlanId) ==
  LET currentUser == getCurrentUserFromToken
      status == CompleteStatus(study_plans, studyPlanId, currentUser, now)
      planIndex == findIndex(study_plans, studyPlanId, currentUser)
  IN /\ IF status = "ok"
        THEN /\ ops < MaxOps
             /\ study_plans' = MarkCompleted(study_plans, planIndex, now)
             /\ progress' = Append(progress,
                  AutoProgress(generateId(progress), currentUser, studyPlanId,
                               study_plans[planIndex], now))
             /\ ops' = ops + 1
             /\ Called("complete", currentUser, studyPlanId, <<>>, status,
                       <<study_plans'[planIndex]>>)
        ELSE /\ Called("complete", currentUser, studyPlanId, <<>>, status, <<>>)
             /\ UNCHANGED <<study_plans, progress, ops>>
     /\ UNCHANGED <<users, subjects, exams, token, now, tabs>>

(***************************************************************************)
(* allocateStudyTime(subjects, exams, totalHours, currentDate)             *)
(***************************************************************************)
\* Math.round(x * 4) / 2 in place of Math.round(x * 4) / 4
RoundQuarterHalved(num, den) ==
  2 * Quarter * ((2 * num + Quarter * den) \div (2 * Quarter * den))

\* Math.round(x * 4) / 4 of the duration x = num / den (den > 0)
RoundQuarter(num, den) == Quarter * ((2 * num + Quarter * den) \div (2 * Quarter * den))

\* Math.ceil((examDate - currentDate) / (1000 * 60 * 60 * 24))
daysUntil(exam, currentDate) == CeilDiv(DateOf(exam.exam_date) - currentDate, HoursPerDay)

RECURSIVE closestExam(_, _, _, _)
\* subjectExams.reduce(..., {daysUntil: 999}) from index i on, closest so far
closestExam(subjectExams, currentDate, i, closest) ==
  IF i > Len(subjectExams) THEN closest
  ELSE closestExam(subjectExams, currentDate, i + 1,
         IF daysUntil(subjectExams[i], currentDate) < closest
         THEN daysUntil(subjectExams[i], currentDate) ELSE closest)

\* the classifier with the limits excluded: < 7 and < 14
priorityOfStrict(days) == IF days < 7 THEN 3 ELSE IF days < 14 THEN 2 ELSE 1

\* the classifier with two levels only
priorityOfTwoLevels(days) == IF days <= 7 THEN 2 ELSE 1

\* closestExam.daysUntil <= 7 ? 3 : closestExam.daysUntil <= 14 ? 2 : 1
priorityOf(days) == IF days <= 7 THEN 3 ELSE IF days <= 14 THEN 2 ELSE 1

\* one entry of subjectPriorities when an exam tagged high gives weight 3
subjectPriorityByTag(subject, exs, currentDate) ==
  LET subjectExams == Filter(exs, LAMBDA exam : exam.subject_id = subject.id)
      days == closestExam(subjectExams, currentDate, 1, NoExamDays)
      high == \E i \in DOMAIN subjectExams : subjectExams[i].priority_level = "high"
  IN IF Len(subjectExams) = 0
     THEN [subject |-> subject, priority |-> 1, daysUntilExam |-> NoExamDays]
     ELSE [subject |-> subject, priority |-> IF high THEN 3 ELSE priorityOf(days),
           daysUntilExam |-> days]

\* one entry of subjectPriorities
subjectPriority(subject, exs, currentDate) ==
  LET subjectExams == Filter(exs, LAMBDA exam : exam.subject_id = subject.id)
      days == closestExam(subjectExams, currentDate, 1, NoExamDays)
  IN IF Len(subjectExams) = 0
     THEN [subject |-> subject, priority |-> 1, daysUntilExam |-> NoExamDays]
     ELSE [subject |-> subject, priority |-> priorityOf(days), daysUntilExam |-> days]

RECURSIVE Sum(_)
\* reduce((sum, x) => sum + x, 0)
Sum(s) == IF Len(s) = 0 THEN 0 ELSE s[1] + Sum(Tail(s))

\* first pass: max(minHours, totalHours * priority / totalPriority), rounded
idealHours(totalHours, priority, totalPriority) ==
  IF totalHours * priority < minHours * totalPriority
  THEN RoundQuarter(minHours, 1)
  ELSE RoundQuarter(totalHours * priority, totalPriority)

\* second pass, entries before the last: max(minHours, hours * scaleFactor), rounded
scaledHours(hours, totalHours, allocatedHours) ==
  IF hours * totalHours < minHours * allocatedHours
  THEN RoundQuarter(minHours, 1)
  ELSE RoundQuarter(hours * totalHours, allocatedHours)

\* the last entry without the floor
lastHoursUnfloored(totalHours, allocatedHours) == totalHours - allocatedHours

\* second pass, the last entry: max(minHours, totalHours - allocatedHours)
lastHours(totalHours, allocatedHours) ==
  IF totalHours - allocatedHours < minHours THEN minHours ELSE totalHours - allocatedHours

\* topic of an entry
topicOf(days) == IF days <= 7 THEN "exam_prep" ELSE "study_session"

\* the only entry when there is one subject: all the time, no rounding
singleAllocation(subs, totalHours) ==
  << [subject |-> subs[1], hours |-> totalHours, topic |-> "study_session"] >>

\* subjects.map(subject => ...): one entry per subject, in order
subjectPriorities(subs, exs, currentDate) ==
  [i \in 1..Len(subs) |-> subjectPriority(subs[i], exs, currentDate)]

\* subjectPriorities.reduce((sum, sp) => sum + sp.priority, 0)
totalPriority(subs, exs, currentDate) ==
  LET sps == subjectPriorities(subs, exs, currentDate)
  IN Sum([i \in 1..Len(subs) |-> sps[i].priority])

\* the hours of idealAllocations after the first pass
idealAllocations(subs, exs, totalHours, currentDate) ==
  LET sps == subjectPriorities(subs, exs, currentDate)
      total == totalPriority(subs, exs, currentDate)
  IN [i \in 1..Len(subs) |-> idealHours(totalHours, sps[i].priority, total)]

\* the test of the second pass: allocatedHours > totalHours
exceedsTotal(subs, exs, totalHours, currentDate) ==
  Sum(idealAllocations(subs, exs, totalHours, currentDate)) > totalHours

\* the path taken for any other number of subjects
weightedAllocation(subs, exs, totalHours, currentDate) ==
  LET n == Len(subs)
      sps == subjectPriorities(subs, exs, currentDate)
      ideal == idealAllocations(subs, exs, totalHours, currentDate)
      allocatedHours == Sum(ideal)
      exceeds == exceedsTotal(subs, exs, totalHours, currentDate)
      scaled == [i \in 1..n |-> scaledHours(ideal[i], totalHours, allocatedHours)]
      allocatedBeforeLast == Sum(SubSeq(scaled, 1, n - 1))
      final == [i \in 1..n |->
                  IF exceeds
                  THEN IF i = n THEN lastHours(totalHours, allocatedBeforeLast)
                       ELSE scaled[i]
                  ELSE ideal[i]]
  IN [i \in 1..n |->
        [subject |-> sps[i].subject,
         hours |-> final[i],
         topic |-> topicOf(sps[i].daysUntilExam)]]

\* the allocation without the branch for one subject
allocateStudyTimeWeightedOnly(subs, exs, totalHours, currentDate) ==
  weightedAllocation(subs, exs, totalHours, currentDate)

allocateStudyTime(subs, exs, totalHours, currentDate) ==
  IF Len(subs) = 1
  THEN singleAllocation(subs, totalHours)
  ELSE weightedAllocation(subs, exs, totalHours, currentDate)

(***************************************************************************)
(* generateStudyPlan(planData)                                             *)
(***************************************************************************)
\* getSubjects() / getExams(): the current user's records, in stored order
ownedBy(items, user) == Filter(items, LAMBDA item : item.user_id = user)

\* the filter without the owner test
keepPlanAnyOwner(plan, user, startDate, endDate) ==
  \/ DateOf(plan.study_date) < startDate
  \/ DateOf(plan.study_date) > endDate

\* the filter without the test against endDate
keepPlanBeforeStart(plan, user, startDate, endDate) ==
  \/ plan.user_id # user
  \/ DateOf(plan.study_date) < startDate

\* the filter keeping other users' plans and plans outside the new range
keepPlan(plan, user, startDate, endDate) ==
  \/ plan.user_id # user
  \/ DateOf(plan.study_date) < startDate
  \/ DateOf(plan.study_date) > endDate

\* the filter keeping the plans dated endDate as well
plansToKeepEndOpen(existingPlans, user, startDate, endDate) ==
  Filter(existingPlans, LAMBDA plan :
    \/ plan.user_id # user
    \/ DateOf(plan.study_date) < startDate
    \/ DateOf(plan.study_date) >= endDate)

plansToKeep(existingPlans, user, startDate, endDate) ==
  Filter(existingPlans, LAMBDA plan : keepPlan(plan, user, startDate, endDate))

\* Math.min(subjects.length, Math.floor(dailyHours / minHoursPerSubject))
subjectsPerDay(subs, dailyHours) ==
  IF Len(subs) < dailyHours \div minHours THEN Len(subs) ELSE dailyHours \div minHours

\* currentDate.setDate(currentDate.getDate() + 1)
nextDate(currentDate) == currentDate + HoursPerDay

\* the subjects of one day with the index starting again at 0 every day
todaySubjectsFromFirst(subs, subjectIndex, perDay) ==
  [i \in 1..perDay |-> subs[((i - 1) % Len(subs)) + 1]]

\* the subjects of one day: subjects[(subjectIndex + i) % subjects.length]
todaySubjects(subs, subjectIndex, perDay) ==
  [i \in 1..perDay |-> subs[((subjectIndex + i - 1) % Len(subs)) + 1]]

\* studyPlans.push({ id: planId++, ... }) for each allocation of one day
pushedPlans(allocations, user, currentDate, planId) ==
  [k \in 1..Len(allocations) |->
     [id |-> planId + k - 1,
      user_id |-> user,
      subject_id |-> allocations[k].subject.id,
      study_date |-> IsoDay(currentDate),
      planned_hours |-> allocations[k].hours,
      topic |-> allocations[k].topic,
      is_completed |-> FALSE,
      completed_at |-> Null]]

\* the plans pushed for one day, ids planId, planId + 1, ...
dayPlans(user, subs, exs, dailyHours, currentDate, planId, subjectIndex) ==
  pushedPlans(allocateStudyTime(
                todaySubjects(subs, subjectIndex, subjectsPerDay(subs, dailyHours)),
                exs, dailyHours, currentDate),
              user, currentDate, planId)

RECURSIVE planLoop(_, _, _, _, _, _, _, _)
\* while (currentDate <= endDate) { ... }
planLoop(user, subs, exs, dailyHours, currentDate, endDate, planId, subjectIndex) ==
  IF currentDate <= endDate
  THEN LET today == dayPlans(user, subs, exs, dailyHours, currentDate, planId, subjectIndex)
       IN today \o planLoop(user, subs, exs, dailyHours, nextDate(currentDate), endDate,
                            planId + Len(today),
                            subjectIndex + subjectsPerDay(subs, dailyHours))
  ELSE <<>>

\* the new plans of one call, ids from planId on
newStudyPlans(user, subs, exs, planData, planId) ==
  planLoop(user, subs, exs, planData.daily_study_hours,
           DateOf(planData.start_date), DateOf(planData.end_date), planId, 0)

\* the checks without the subjects test
GenerateStatusNoSubjectsTest(user, subs) ==
  IF user = NoToken THEN "not_authenticated" ELSE "ok"

\* the outcome of the checks of generateStudyPlan
GenerateStatus(user, subs) ==
  IF user = NoToken THEN "not_authenticated"
  ELSE IF Len(subs) = 0 THEN "no_subjects"
  ELSE "ok"

\* [...existingPlans, ...studyPlans], the earlier revision (lines 288-289)
allPlansAppendOnly(existingPlans, user, planData, studyPlans) ==
  existingPlans \o studyPlans

\* [...plansToKeep, ...studyPlans]
allPlans(existingPlans, user, planData, studyPlans) ==
  plansToKeep(existingPlans, user, DateOf(planData.start_date), DateOf(planData.end_date))
    \o studyPlans

\* requests made of generateStudyPlan
RangeChoices ==
  { <<IsoDay(StartNow), IsoDay(StartNow)>>,
    <<IsoDay(StartNow) + 1, IsoDay(StartNow) + 2>>,
    <<IsoDay(StartNow) + 2, IsoDay(StartNow) + 1>> }

DailyHoursChoices == {10, 80}

PlanDataChoices ==
  { [start_date |-> r[1], end_date |-> r[2], daily_study_hours |-> h] :
      r \in RangeChoices, h \in DailyHoursChoices }

generateStudyPlan(planData) ==
  LET currentUser == getCurrentUserFromToken
      subs == ownedBy(subjects, currentUser)
      exs == ownedBy(exams, currentUser)
      status == GenerateStatus(currentUser, subs)
      studyPlans == newStudyPlans(currentUser, subs, exs, planData, generateId(study_plans))
  IN /\ IF status = "ok"
        THEN /\ ops < MaxOps
             /\ study_plans' = allPlans(study_plans, currentUser, planData, studyPlans)
             /\ ops' = ops + 1
             /\ Called("generate", currentUser, 0, planData, status, studyPlans)
        ELSE /\ Called("generate", currentUser, 0, planData, status, <<>>)
             /\ UNCHANGED <<study_plans, ops>>
     /\ UNCHANGED <<users, subjects, exams, progress, token, now, tabs>>

(***************************************************************************)
(* deleteStudyPlan                                                         *)
(***************************************************************************)
\* studyPlans.filter(plan => !(plan.id === id && plan.user_id === user))
filteredPlans(plans, id, user) ==
  Filter(plans, LAMBDA plan : ~(plan.id = id /\ plan.user_id = user))

\* deleting the Progress records of the session with it
deleteStudyPlanCascading(studyPlanId) ==
  LET currentUser == getCurrentUserFromToken
  IN /\ IF currentUser = NoToken
        THEN /\ Called("delete", currentUser, studyPlanId, <<>>, "not_authenticated", <<>>)
             /\ UNCHANGED <<study_plans, progress, ops>>
        ELSE /\ ops < MaxOps
             /\ study_plans' = Filter(study_plans, LAMBDA plan :
                                  ~(plan.id = studyPlanId /\ plan.user_id = currentUser))
             /\ progress' = Filter(progress, LAMBDA record :
                               ~(record.study_plan_id = studyPlanId
                                 /\ record.user_id = currentUser))
             /\ ops' = ops + 1
             /\ Called("delete", currentUser, studyPlanId, <<>>, "ok", <<>>)
     /\ UNCHANGED <<users, subjects, exams, token, now, tabs>>

deleteStudyPlan(studyPlanId) ==
  LET currentUser == getCurrentUserFromToken
  IN /\ IF currentUser = NoToken
        THEN /\ Called("delete", currentUser, studyPlanId, <<>>, "not_authenticated", <<>>)
             /\ UNCHANGED <<study_plans, ops>>
        ELSE /\ ops < MaxOps
             /\ study_plans' = filteredPlans(study_plans, studyPlanId, currentUser)
             /\ ops' = ops + 1
             /\ Called("delete", currentUser, studyPlanId, <<>>, "ok", <<>>)
     /\ UNCHANGED <<users, subjects, exams, progress, token, now, tabs>>

(***************************************************************************)
(* updateStudyPlan, createProgress                                         *)
(***************************************************************************)
\* { ...studyPlans[planIndex], ...updateData }
merged(plan, updateData) ==
  [f \in DOMAIN plan \cup DOMAIN updateData |->
     IF f \in DOMAIN updateData THEN updateData[f] ELSE plan[f]]

\* bodies sent to PUT /study-plans/{id}
UpdateChoices ==
  { [is_completed |-> FALSE], [planned_hours |-> 20], [user_id |-> secondUser.id],
    [id |-> demoStudyPlansData[3].id] }

updateStudyPlan(studyPlanId, updateData) ==
  LET currentUser == getCurrentUserFromToken
      planIndex == findIndex(study_plans, studyPlanId, currentUser)
  IN /\ IF currentUser = NoToken
        THEN /\ Called("update", currentUser, studyPlanId, updateData, "not_authenticated", <<>>)
             /\ UNCHANGED <<study_plans, ops>>
        ELSE IF planIndex = 0
        THEN /\ Called("update", currentUser, studyPlanId, updateData, "not_found", <<>>)
             /\ UNCHANGED <<study_plans, ops>>
        ELSE /\ ops < MaxOps
             /\ study_plans' = [study_plans EXCEPT
                                  ![planIndex] = merged(study_plans[planIndex], updateData)]
             /\ ops' = ops + 1
             /\ Called("update", currentUser, studyPlanId, updateData, "ok", <<study_plans'[planIndex]>>)
     /\ UNCHANGED <<users, subjects, exams, progress, token, now, tabs>>

\* bodies sent to POST /progress
ProgressChoices == { [study_plan_id |-> 2, actual_hours |-> 20] }

\* the record createProgress pushes
newProgress(newId, user, progressData, t) ==
  [id |-> newId, user_id |-> user, study_plan_id |-> progressData.study_plan_id,
   actual_hours |-> progressData.actual_hours, notes |-> "manual", completed_at |-> t]

createProgress(progressData) ==
  LET currentUser == getCurrentUserFromToken
  IN /\ IF currentUser = NoToken
        THEN /\ Called("createProgress", currentUser, 0, progressData,
                       "not_authenticated", <<>>)
             /\ UNCHANGED <<progress, ops>>
        ELSE /\ ops < MaxOps
             /\ progress' = Append(progress,
                  newProgress(generateId(progress), currentUser, progressData, now))
             /\ ops' = ops + 1
             /\ Called("createProgress", currentUser, 0, progressData, "ok",
                       <<progress'[Len(progress')]>>)
     /\ UNCHANGED <<users, subjects, exams, study_plans, token, now, tabs>>

(***************************************************************************)
(* The reads.  Each returns the records themselves; the joins look the     *)
(* subject up by id among the subjects of every account.                   *)
(***************************************************************************)
\* subjects.find(s => s.id === id): the first stored subject with the id
findSubject(subs, id) ==
  IF \E i \in 1..Len(subs) : subs[i].id = id
  THEN {subs[CHOOSE i \in 1..Len(subs) :
               subs[i].id = id /\ \A j \in 1..(i - 1) : subs[j].id # id]}
  ELSE {}

\* the subjects joined to the records of items
joinedSubjects(items, subs) ==
  UNION {findSubject(subs, items[i].subject_id) : i \in 1..Len(items)}

\* getSubjects()
getSubjects(subs, user) == Range(ownedBy(subs, user))

\* getExams(): the exams and the subject joined to each
getExams(exs, subs, user) ==
  Range(ownedBy(exs, user)) \cup joinedSubjects(ownedBy(exs, user), subs)

\* getStudyPlans(): the sessions and the subject joined to each
getStudyPlans(plans, subs, user) ==
  Range(ownedBy(plans, user)) \cup joinedSubjects(ownedBy(plans, user), subs)

\* getTodayTasks(): the sessions of today and the subject each is named after
getTodayTasks(plans, subs, user, t) ==
  LET tasks == Filter(plans, LAMBDA plan :
                 plan.user_id = user /\ plan.study_date = IsoDay(t))
  IN Range(tasks) \cup joinedSubjects(tasks, subs)

\* getProgress()
getProgress(prog, user) == Range(ownedBy(prog, user))

\* getDashboardStats(): counts over the four reads it makes
getDashboardStats(subs, exs, plans, prog, user, t) ==
  getSubjects(subs, user) \cup getExams(exs, subs, user)
    \cup getTodayTasks(plans, subs, user, t) \cup getProgress(prog, user)

(***************************************************************************)
(* login, the clock                                                        *)
(***************************************************************************)
\* login(credentials) with the credentials of account u
login(u) ==
  /\ \E i \in 1..Len(users) : users[i].id = u
  /\ token # u
  /\ token' = u
  /\ Called("login", u, 0, <<>>, "ok", <<>>)
  /\ UNCHANGED <<users, subjects, exams, study_plans, progress, now, ops, tabs>>

Tick ==
  /\ now + TickHours <= MaxNow
  /\ now' = now + TickHours
  /\ Called("tick", NoToken, 0, <<>>, "ok", <<>>)
  /\ UNCHANGED <<users, subjects, exams, study_plans, progress, token, ops, tabs>>

\* session ids requested of complete / delete
IdChoices == {2, 4, 16}

\* session ids requested of update
UpdateIdChoices == {2}

Next ==
  \/ \E i \in 1..Len(users) : login(users[i].id)
  \/ Tick
  \/ \E planData \in PlanDataChoices : generateStudyPlan(planData)
  \/ \E id \in IdChoices : markStudyPlanCompleted(id)
  \/ \E id \in IdChoices : deleteStudyPlan(id)
  \/ \E id \in UpdateIdChoices : \E updateData \in UpdateChoices :
       updateStudyPlan(id, updateData)
  \/ \E progressData \in ProgressChoices : createProgress(progressData)

Spec == Init /\ [][Next]_vars

(***************************************************************************)
(* Two browsing contexts on one localStorage.  Each step below is one      *)
(* storage access of a handler (the line it models is named); between two  *)
(* steps of one context the other context may run.                         *)
(***************************************************************************)
SetTab(t, rec) == tabs' = [tabs EXCEPT ![t] = rec]

\* markStudyPlanCompleted, lines 1084-1105: token, getItem('study_plans'), checks
CompleteStart(t, studyPlanId) ==
  LET currentUser == getCurrentUserFromToken
      status == CompleteStatus(study_plans, studyPlanId, currentUser, now)
      planIndex == findIndex(study_plans, studyPlanId, currentUser)
  IN /\ tabs[t].pc = "idle"
     /\ IF status = "ok"
        THEN /\ ops < MaxOps
             /\ ops' = ops + 1
             /\ SetTab(t, [Idle EXCEPT !.pc = "c_setPlans", !.user = currentUser,
                             !.id = studyPlanId,
                             !.plans = MarkCompleted(study_plans, planIndex, now),
                             !.out = <<study_plans[planIndex]>>])
             /\ UNCHANGED last
        ELSE /\ Called("complete", currentUser, studyPlanId, <<>>, status, <<>>)
             /\ UNCHANGED <<ops, tabs>>
     /\ UNCHANGED <<users, subjects, exams, study_plans, progress, token, now>>

\* line 1106: setItem('study_plans')
CompleteSetPlans(t) ==
  /\ tabs[t].pc = "c_setPlans"
  /\ study_plans' = tabs[t].plans
  /\ SetTab(t, [tabs[t] EXCEPT !.pc = "c_getProgress"])
  /\ UNCHANGED <<users, subjects, exams, progress, token, now, ops, last>>

\* line 1109: getItem('progress')
CompleteGetProgress(t) ==
  /\ tabs[t].pc = "c_getProgress"
  /\ SetTab(t, [tabs[t] EXCEPT !.pc = "c_generateId", !.prog = progress])
  /\ UNCHANGED <<users, subjects, exams, study_plans, progress, token, now, ops, last>>

\* lines 1110-1117: generateId('progress') reads the collection again; push
CompleteGenerateId(t) ==
  /\ tabs[t].pc = "c_generateId"
  /\ SetTab(t, [tabs[t] EXCEPT
                  !.pc = "c_setProgress",
                  !.prog = Append(tabs[t].prog,
                             AutoProgress(generateId(progress), tabs[t].user, tabs[t].id,
                                          tabs[t].out[1], now))])
  /\ UNCHANGED <<users, subjects, exams, study_plans, progress, token, now, ops, last>>

\* line 1118: setItem('progress'), return
CompleteSetProgress(t) ==
  /\ tabs[t].pc = "c_setProgress"
  /\ progress' = tabs[t].prog
  /\ SetTab(t, Idle)
  /\ Called("complete", tabs[t].user, tabs[t].id, <<>>, "ok", <<>>)
  /\ UNCHANGED <<users, subjects, exams, study_plans, token, now, ops>>

\* generateStudyPlan, lines 807-810: token, getSubjects()
GenerateStart(t, planData) ==
  LET currentUser == getCurrentUserFromToken
  IN /\ tabs[t].pc = "idle"
     /\ IF currentUser = NoToken
        THEN /\ Called("generate", currentUser, 0, planData, "not_authenticated", <<>>)
             /\ UNCHANGED <<ops, tabs>>
        ELSE /\ ops < MaxOps
             /\ ops' = ops + 1
             /\ SetTab(t, [Idle EXCEPT !.pc = "g_getExams", !.user = currentUser,
                             !.planData = planData,
                             !.subs = ownedBy(subjects, currentUser)])
             /\ UNCHANGED last
     /\ UNCHANGED <<users, subjects, exams, study_plans, progress, token, now>>

\* lines 811-815: getExams() reads the token again; the subjects check
GenerateGetExams(t) ==
  LET currentUser == getCurrentUserFromToken
      status == GenerateStatus(currentUser, tabs[t].subs)
  IN /\ tabs[t].pc = "g_getExams"
     /\ IF status = "ok"
        THEN /\ SetTab(t, [tabs[t] EXCEPT !.pc = "g_getPlans",
                                          !.exs = ownedBy(exams, currentUser)])
             /\ UNCHANGED last
        ELSE /\ SetTab(t, Idle)
             /\ Called("generate", tabs[t].user, 0, tabs[t].planData, status, <<>>)
     /\ UNCHANGED <<users, subjects, exams, study_plans, progress, token, now, ops>>

\* lines 823-830: getItem('study_plans'), plansToKeep
GenerateGetPlans(t) ==
  /\ tabs[t].pc = "g_getPlans"
  /\ SetTab(t, [tabs[t] EXCEPT
                  !.pc = "g_generateId",
                  !.plans = plansToKeep(study_plans, tabs[t].user,
                                        DateOf(tabs[t].planData.start_date),
                                        DateOf(tabs[t].planData.end_date))])
  /\ UNCHANGED <<users, subjects, exams, study_plans, progress, token, now, ops, last>>

\* lines 842-872: generateId('study_plans') reads the collection again; the loop
GenerateGenerateId(t) ==
  /\ tabs[t].pc = "g_generateId"
  /\ SetTab(t, [tabs[t] EXCEPT
                  !.pc = "g_setPlans",
                  !.out = newStudyPlans(tabs[t].user, tabs[t].subs, tabs[t].exs,
                                        tabs[t].planData, generateId(study_plans))])
  /\ UNCHANGED <<users, subjects, exams, study_plans, progress, token, now, ops, last>>

\* lines 875-876: setItem('study_plans', [...plansToKeep, ...studyPlans]), return
GenerateSetPlans(t) ==
  /\ tabs[t].pc = "g_setPlans"
  /\ study_plans' = tabs[t].plans \o tabs[t].out
  /\ SetTab(t, Idle)
  /\ Called("generate", tabs[t].user, 0, tabs[t].planData, "ok", tabs[t].out)
  /\ UNCHANGED <<users, subjects, exams, progress, token, now, ops>>

\* deleteStudyPlan, lines 1003-1009: token, getItem('study_plans'), filter
DeleteStart(t, studyPlanId) ==
  LET currentUser == getCurrentUserFromToken
  IN /\ tabs[t].pc = "idle"
     /\ IF currentUser = NoToken
        THEN /\ Called("delete", currentUser, studyPlanId, <<>>, "not_authenticated", <<>>)
             /\ UNCHANGED <<ops, tabs>>
        ELSE /\ ops < MaxOps
             /\ ops' = ops + 1
             /\ SetTab(t, [Idle EXCEPT !.pc = "d_setPlans", !.user = currentUser,
                             !.id = studyPlanId,
                             !.plans = filteredPlans(study_plans, studyPlanId, currentUser)])
             /\ UNCHANGED last
     /\ UNCHANGED <<users, subjects, exams, study_plans, progress, token, now>>

\* line 1011: setItem('study_plans'), return
DeleteSetPlans(t) ==
  /\ tabs[t].pc = "d_setPlans"
  /\ study_plans' = tabs[t].plans
  /\ SetTab(t, Idle)
  /\ Called("delete", tabs[t].user, tabs[t].id, <<>>, "ok", <<>>)
  /\ UNCHANGED <<users, subjects, exams, progress, token, now, ops>>

\* requests made in the two-context specification
TabIdChoices == {2, 3}

TabPlanDataChoices ==
  { [start_date |-> IsoDay(StartNow) + 1, end_date |-> IsoDay(StartNow) + 2,
     daily_study_hours |-> 10] }

NextTabs ==
  \/ \E i \in 1..Len(users) : login(users[i].id)
  \/ \E t \in Tabs :
       \/ \E id \in TabIdChoices : CompleteStart(t, id)
       \/ CompleteSetPlans(t)
       \/ CompleteGetProgress(t)
       \/ CompleteGenerateId(t)
       \/ CompleteSetProgress(t)
       \/ \E planData \in TabPlanDataChoices : GenerateStart(t, planData)
       \/ GenerateGetExams(t)
       \/ GenerateGetPlans(t)
       \/ GenerateGenerateId(t)
       \/ GenerateSetPlans(t)
       \/ \E id \in TabIdChoices : DeleteStart(t, id)
       \/ DeleteSetPlans(t)

SpecTabs == Init /\ [][NextTabs]_vars

(***************************************************************************)
(* allocateStudyTime and the rounding of line 925 on their own.  A context *)
(* is stopped in generateStudyPlan just before the call of line 855       *)
(* (pc "allocate": todaySubjects, exams, dailyHours, currentDate are its   *)
(* locals) or in allocateStudyTime just before line 925 (pc "quantize":    *)
(* hours = num / den is its local); the step makes the call.  A context    *)
(* with pc "classify" is in allocateStudyTime at line 900, and its step    *)
(* runs lines 900-914 and leaves subjectPriorities in out.                 *)
(***************************************************************************)
\* offsets, in days from the reference date, of the exams handed to the
\* classifier
ClassifyOffsetChoices == {-2, 0, 7, 8, 14, 15}

\* the exams picks[k] = <<position of the subject, offset>>, in stored order
pickedExams(user, subs, picks, day) ==
  [k \in 1..Len(picks) |->
     [id |-> k, user_id |-> user, subject_id |-> subs[picks[k][1]].id,
      exam_date |-> day + picks[k][2], priority_level |-> "medium"]]

ClassifyCall(subs, exs, currentDate) ==
  [Idle EXCEPT !.pc = "classify", !.user = demoUser.id, !.subs = subs, !.exs = exs,
               !.planData = [currentDate |-> currentDate]]

\* offsets, in days from the day of the call, of the exam of a subject
ExamOffsetChoices == {-2, 3, 10, 20}

\* n subjects of one account, ids from firstId on
subjectsOf(user, firstId, n) ==
  [i \in 1..n |-> [id |-> firstId + i - 1, user_id |-> user]]

\* the exams of these subjects: subject i has one exam offs[i] days after
\* day, or none when offs[i] = Null; ids from firstId on
examsOf(user, subs, offs, day, firstId) ==
  LET having == SelectSeq([i \in 1..Len(subs) |-> i], LAMBDA i : offs[i] # Null)
  IN [k \in 1..Len(having) |->
        [id |-> firstId + k - 1, user_id |-> user, subject_id |-> subs[having[k]].id,
         exam_date |-> day + offs[having[k]], priority_level |-> "medium"]]

AllocateCall(subs, exs, totalHours, currentDate) ==
  [Idle EXCEPT !.pc = "allocate", !.user = demoUser.id, !.subs = subs, !.exs = exs,
               !.planData = [totalHours |-> totalHours, currentDate |-> currentDate]]

QuantizeCall(num, den) ==
  [Idle EXCEPT !.pc = "quantize", !.user = demoUser.id,
               !.planData = [num |-> num, den |-> den]]

InitAlloc ==
  /\ users = <<demoUser, secondUser>>
  /\ study_plans = demoStudyPlansData
  /\ progress = demoProgressData
  /\ token = demoUser.id
  /\ now = StartNow
  /\ ops = 0
  /\ last = NoCall
  /\ \/ \E n \in 1..MaxSubjects :
          \E offs \in [1..n -> ExamOffsetChoices \cup {Null}] :
            \E totalHours \in 1..MaxTotalHours :
              /\ subjects = subjectsOf(demoUser.id, 1, n)
              /\ exams = examsOf(demoUser.id, subjects, offs, IsoDay(StartNow), 1)
              /\ tabs = [t \in Tabs |->
                           IF t = 1
                           THEN AllocateCall(subjects, exams, totalHours,
                                             DateOf(IsoDay(StartNow)))
                           ELSE Idle]
     \/ \E num \in 0..MaxTotalHours : \E den \in 1..(3 * MaxSubjects) :
          /\ subjects = demoSubjects
          /\ exams = demoExams
          /\ tabs = [t \in Tabs |-> IF t = 1 THEN QuantizeCall(num, den) ELSE Idle]
     \/ \E n \in 2..MaxSubjects : \E len \in 0..MaxExams :
          \E picks \in [1..len -> (1..n) \X ClassifyOffsetChoices] :
            /\ subjects = subjectsOf(demoUser.id, 1, n)
            /\ exams = pickedExams(demoUser.id, subjects, picks, IsoDay(StartNow))
            /\ tabs = [t \in Tabs |->
                         IF t = 1
                         THEN ClassifyCall(subjects, exams, DateOf(IsoDay(StartNow)))
                         ELSE Idle]

\* line 855: allocations = this.allocateStudyTime(todaySubjects, exams, dailyHours, currentDate)
Allocate(t) ==
  /\ tabs[t].pc = "allocate"
  /\ SetTab(t, [tabs[t] EXCEPT
                  !.pc = "allocated",
                  !.out = allocateStudyTime(tabs[t].subs, tabs[t].exs,
                                            tabs[t].planData.totalHours,
                                            tabs[t].planData.currentDate)])
  /\ Called("allocate", tabs[t].user, 0, tabs[t].planData, "ok", <<>>)
  /\ UNCHANGED <<users, subjects, exams, study_plans, progress, token, now, ops>>

\* line 925: hours = Math.round(hours * 4) / 4
Quantize(t) ==
  /\ tabs[t].pc = "quantize"
  /\ SetTab(t, [tabs[t] EXCEPT
                  !.pc = "quantized",
                  !.out = <<RoundQuarter(tabs[t].planData.num, tabs[t].planData.den)>>])
  /\ Called("quantize", tabs[t].user, 0, tabs[t].planData, "ok", <<>>)
  /\ UNCHANGED <<users, subjects, exams, study_plans, progress, token, now, ops>>

\* lines 900-914: const subjectPriorities = subjects.map(...)
Classify(t) ==
  /\ tabs[t].pc = "classify"
  /\ SetTab(t, [tabs[t] EXCEPT
                  !.pc = "classified",
                  !.out = subjectPriorities(tabs[t].subs, tabs[t].exs,
                                            tabs[t].planData.currentDate)])
  /\ Called("classify", tabs[t].user, 0, tabs[t].planData, "ok", <<>>)
  /\ UNCHANGED <<users, subjects, exams, study_plans, progress, token, now, ops>>

NextAlloc == \E t \in Tabs : Allocate(t) \/ Quantize(t) \/ Classify(t)

SpecAlloc == InitAlloc /\ [][NextAlloc]_vars

(***************************************************************************)
(* generateStudyPlan for an account with any subjects and exams.  The      *)
(* second account is logged in and owns up to MaxPlanSubjects subjects;    *)
(* when they are at most MaxSubjects each has one exam or none, otherwise  *)
(* none has an exam; the exams of the account carry one priority tag.  The *)
(* demo records are stored beside them.                                    *)
(***************************************************************************)
\* offsets, in days from today, of the exam of a subject of the account
PlanOffsetChoices == {3, 10}

\* the priority tags createExam stores
PriorityLevels == {"low", "medium", "high"}

\* the same exams created with the priority tag given
retagged(exs, tag) == [i \in DOMAIN exs |-> [exs[i] EXCEPT !.priority_level = tag]]

InitPlan ==
  /\ users = <<demoUser, secondUser>>
  /\ \E n \in 1..MaxPlanSubjects :
       \E offs \in [1..n -> IF n <= MaxSubjects THEN PlanOffsetChoices \cup {Null}
                                               ELSE {Null}] :
         \E tag \in PriorityLevels :
           /\ subjects = demoSubjects \o subjectsOf(secondUser.id, Len(demoSubjects) + 1, n)
           /\ exams = demoExams \o
                        retagged(examsOf(secondUser.id, ownedBy(subjects, secondUser.id),
                                         offs, IsoDay(StartNow), Len(demoExams) + 1), tag)
  /\ study_plans = demoStudyPlansData
  /\ progress = demoProgressData
  /\ token = secondUser.id
  /\ now = StartNow
  /\ ops = 0
  /\ last = NoCall
  /\ tabs = [t \in Tabs |-> Idle]

\* requests made of generateStudyPlan by the account: one day or six days
\* from today
PlanRangeChoices ==
  { <<IsoDay(StartNow), IsoDay(StartNow)>>, <<IsoDay(StartNow), IsoDay(StartNow) + 5>> }

\* daily hours of the form (hours + minutes / 60): 0:15, 0:30, 1:00, 1:18
\* and 4:00
PlanHoursChoices ==
  {Quarter, minHours, 2 * minHours, 2 * minHours + 6, 8 * minHours}

PlanRequestChoices ==
  { [start_date |-> r[1], end_date |-> r[2], daily_study_hours |-> h] :
      r \in PlanRangeChoices, h \in PlanHoursChoices }

NextPlan ==
  /\ ops < MaxPlanOps
  /\ \E planData \in PlanRequestChoices : generateStudyPlan(planData)

SpecPlan == InitPlan /\ [][NextPlan]_vars

(***************************************************************************)
(* AgentService.analyzeProgress(userId): the streak                        *)
(* (src/frontend/src/services/agentService.js, lines 172-252).             *)
(***************************************************************************)
\* some session counted for the day whatever its completion
hasSession(userPlans, dateStr) ==
  \E k \in 1..Len(userPlans) : userPlans[k].study_date = dateStr

\* userPlans.some(p => p.study_date === dateStr && p.is_completed)
hasCompleted(userPlans, dateStr) ==
  \E k \in 1..Len(userPlans) :
    userPlans[k].study_date = dateStr /\ userPlans[k].is_completed

RECURSIVE streakLoop(_, _, _, _)
\* for (let i = 0; i < 30; i++) { ... } from iteration i on; date is today
\* moved back i days, dateStr its UTC calendar day
streakLoop(userPlans, today, i, streak) ==
  IF i >= StreakDays THEN streak
  ELSE IF hasCompleted(userPlans, IsoDay(today - i * HoursPerDay))
       THEN streakLoop(userPlans, today, i + 1, streak + 1)
       ELSE IF i > 0 THEN streak
            ELSE streakLoop(userPlans, today, i + 1, streak)

\* currentStreak of analyzeProgress(userId) called at time t
currentStreak(plans, userId, t) == streakLoop(ownedBy(plans, userId), t, 0, 0)

analyzeProgress(userId) ==
  /\ Called("analyzeProgress", userId, 0, <<>>, "ok",
            <<currentStreak(study_plans, userId, now)>>)
  /\ UNCHANGED <<users, subjects, exams, study_plans, progress, token, now, ops, tabs>>

\* a stored history of the demo account: one session a day over the last
\* MaxRun + 3 days; completed are today (when doneToday), the run days
\* before today and, when earlier, the day two days before the run; the day
\* before the run holds a session that is not completed.  With other, the
\* second account has a completed session on every day.
historyPlans(doneToday, run, earlier, other) ==
  LET days == MaxRun + 3
      today == IsoDay(StartNow) + days
      mine == [k \in 1..(days + 1) |->
                 LET back == days + 1 - k
                 IN [id |-> k, user_id |-> demoUser.id, subject_id |-> demoSubjects[1].id,
                     study_date |-> today - back, planned_hours |-> 2 * minHours,
                     topic |-> "study_session",
                     is_completed |-> \/ (back = 0 /\ doneToday)
                                      \/ (1 <= back /\ back <= run)
                                      \/ (back = run + 2 /\ earlier),
                     completed_at |-> Null]]
      theirs == [k \in 1..(days + 1) |->
                   [id |-> days + 1 + k, user_id |-> secondUser.id,
                    subject_id |-> secondSubject.id,
                    study_date |-> today - (days + 1 - k), planned_hours |-> 2 * minHours,
                    topic |-> "study_session", is_completed |-> TRUE,
                    completed_at |-> Null]]
  IN IF other THEN mine \o theirs ELSE mine

InitStreak ==
  /\ users = <<demoUser, secondUser>>
  /\ subjects = Append(demoSubjects, secondSubject)
  /\ exams = demoExams
  /\ \E doneToday \in BOOLEAN : \E run \in 0..MaxRun :
       \E earlier \in BOOLEAN : \E other \in BOOLEAN :
         study_plans = historyPlans(doneToday, run, earlier, other)
  /\ progress = demoProgressData
  /\ token = demoUser.id
  /\ now = StartNow + (MaxRun + 3) * HoursPerDay
  /\ ops = 0
  /\ last = NoCall
  /\ tabs = [t \in Tabs |-> Idle]

NextStreak == \E i \in 1..Len(users) : analyzeProgress(users[i].id)

SpecStreak == InitStreak /\ [][NextStreak]_vars

(***************************************************************************)
(* Properties.                                                             *)
(***************************************************************************)
\* the stored sessions with a given id and owner
OwnedWithId(plans, id, user) ==
  {i \in 1..Len(plans) : plans[i].id = id /\ plans[i].user_id = user}

\* the first of them
FirstOwnedWithId(plans, id, user) ==
  CHOOSE i \in OwnedWithId(plans, id, user) : \A j \in OwnedWithId(plans, id, user) : i <= j

\* the automatically created Progress records of a session id of an owner
AutoRecords(prog, id, user) ==
  {j \in 1..Len(prog) : /\ prog[j].notes = "auto"
                        /\ prog[j].study_plan_id = id
                        /\ prog[j].user_id = user}

\* the step is a call of op that returned status
Returned(op, status) == last'.op = op /\ last'.status = status

\* C1: whatever sequence of complete(sessionId, owner) calls is made, a
\* session never has more than one automatically created Progress record.
C1_AtMostOneAutoProgress ==
  \A i \in 1..Len(study_plans) :
    Cardinality(AutoRecords(progress, study_plans[i].id, study_plans[i].user_id)) <= 1

\* C2: complete on a session dated after today fails with the
\* not-yet-available error and leaves every collection unchanged (the session
\* stays as it was, no Progress record is added); a session dated today or
\* earlier is not rejected by the date gate.
C2_DateGate ==
  [][ (last'.op = "complete" /\ last'.status \in {"ok", "not_yet"}) =>
        LET plan == study_plans[FirstOwnedWithId(study_plans, last'.id, last'.user)]
        IN /\ (plan.study_date > Today) <=> (last'.status = "not_yet")
           /\ last'.status = "not_yet" =>
                /\ UNCHANGED store
                /\ study_plans'[FirstOwnedWithId(study_plans, last'.id, last'.user)] = plan
                /\ Len(progress') = Len(progress) ]_vars

C2_Witness ==
  /\ last.op = "complete" /\ last.status = "not_yet"
  /\ \E i \in OwnedWithId(study_plans, last.id, last.user) :
       /\ study_plans[i].study_date > Today
       /\ ~study_plans[i].is_completed
       /\ study_plans[i].completed_at = Null
  /\ AutoRecords(progress, last.id, last.user) = {}

\* C3: a successful complete sets is_completed, stamps completed_at with the
\* time of the call and appends one Progress record of the same owner that
\* refers to the session id and whose actual_hours is the session's
\* planned_hours at the time of the call.
C3_CompleteEffect ==
  [][ Returned("complete", "ok") =>
        LET i == FirstOwnedWithId(study_plans, last'.id, last'.user)
            rec == progress'[Len(progress')]
        IN /\ study_plans'[i].is_completed = TRUE
           /\ study_plans'[i].completed_at = now
           /\ Len(progress') = Len(progress) + 1
           /\ SubSeq(progress', 1, Len(progress)) = progress
           /\ rec.user_id = last'.user
           /\ rec.study_plan_id = last'.id
           /\ rec.actual_hours = study_plans[i].planned_hours
           /\ rec.notes = "auto" ]_vars

C3_Witness ==
  /\ last.op = "complete" /\ last.status = "ok"
  /\ \E i \in OwnedWithId(study_plans, last.id, last.user) :
       /\ study_plans[i].is_completed
       /\ study_plans[i].completed_at = now
       /\ \E j \in AutoRecords(progress, last.id, last.user) :
            progress[j].actual_hours = study_plans[i].planned_hours

\* C4: no observable state has a completed session without a Progress record
\* for it, or an automatic Progress record whose session is stored as not
\* completed.
C4_AtomicCompletion ==
  /\ \A i \in 1..Len(study_plans) :
       study_plans[i].is_completed =>
         \E j \in 1..Len(progress) :
           /\ progress[j].study_plan_id = study_plans[i].id
           /\ progress[j].user_id = study_plans[i].user_id
  /\ \A j \in 1..Len(progress) :
       progress[j].notes = "auto" =>
         \A i \in OwnedWithId(study_plans, progress[j].study_plan_id, progress[j].user_id) :
           study_plans[i].is_completed

\* C5: complete by an authenticated owner fails with the not-found error and
\* changes neither study_plans nor progress when no session has that id or
\* the session with that id belongs to another owner.
C5_NotFound ==
  [][ (last'.op = "complete" /\ last'.user # NoToken
       /\ OwnedWithId(study_plans, last'.id, last'.user) = {}) =>
        /\ last'.status = "not_found"
        /\ UNCHANGED <<study_plans, progress>> ]_vars

C5_Witness ==
  /\ last.op = "complete" /\ last.status = "not_found"
  /\ last.user # NoToken
  /\ \E i \in 1..Len(study_plans) :
       study_plans[i].id = last.id /\ study_plans[i].user_id # last.user

\* the (subject, date, planned hours) tuple of a session
TupleOf(plan) == <<plan.subject_id, plan.study_date, plan.planned_hours>>

\* the positions of an owner's sessions dated within [startDay, endDay]
InRange(plans, user, startDay, endDay) ==
  {i \in 1..Len(plans) : /\ plans[i].user_id = user
                         /\ startDay <= plans[i].study_date
                         /\ plans[i].study_date <= endDay}

\* how many of an owner's sessions in the range carry the tuple tup
TupleCount(plans, user, startDay, endDay, tup) ==
  Cardinality({i \in InRange(plans, user, startDay, endDay) : TupleOf(plans[i]) = tup})

TuplesIn(plans, user, startDay, endDay) ==
  {TupleOf(plans[i]) : i \in InRange(plans, user, startDay, endDay)}

\* C6: a generate call that repeats the call just before it (same owner,
\* subjects, exams, dailyHours, startDate, endDate) leaves the owner's
\* sessions of the range with the same (subject, date, hours) tuples, each as
\* often as before.
C6_RegenerationIdempotent ==
  [][ (Returned("generate", "ok") /\ last'.again) =>
        LET u == last'.user
            a == last'.arg.start_date
            b == last'.arg.end_date
        IN \A tup \in TuplesIn(study_plans, u, a, b) \cup TuplesIn(study_plans', u, a, b) :
             TupleCount(study_plans', u, a, b, tup) = TupleCount(study_plans, u, a, b, tup) ]_vars

C6_Witness ==
  /\ last.op = "generate" /\ last.status = "ok" /\ last.again
  /\ Len(last.ret) > 0
  /\ InRange(study_plans, last.user, last.arg.start_date, last.arg.end_date) # {}

\* the sessions generate has to leave alone: other owners' sessions and the
\* owner's sessions dated outside [startDay, endDay]
Outside(plans, user, startDay, endDay) ==
  {i \in 1..Len(plans) : \/ plans[i].user_id # user
                         \/ plans[i].study_date < startDay
                         \/ plans[i].study_date > endDay}

\* C7: generate leaves every stored session of another owner, and every
\* session of the owner dated outside the range, unchanged: the same records
\* are stored after the call, and no other such record is.
C7_GenerateFrame ==
  [][ Returned("generate", "ok") =>
        LET u == last'.user
            a == last'.arg.start_date
            b == last'.arg.end_date
        IN /\ {study_plans[i] : i \in Outside(study_plans, u, a, b)}
                = {study_plans'[i] : i \in Outside(study_plans', u, a, b)}
           /\ Cardinality(Outside(study_plans, u, a, b))
                = Cardinality(Outside(study_plans', u, a, b)) ]_vars

C7_Witness ==
  /\ last.op = "generate" /\ last.status = "ok"
  /\ Len(last.ret) > 0
  /\ \E i \in 1..Len(study_plans) :
       /\ study_plans[i].user_id # last.user
       /\ last.arg.start_date <= study_plans[i].study_date
       /\ study_plans[i].study_date <= last.arg.end_date

\* C8: after a successful generate the owner's stored sessions dated within
\* the range are exactly the sessions the call returned, each stored once:
\* every earlier session of the owner in the range is gone.
C8_RangeReplaced ==
  [][ Returned("generate", "ok") =>
        LET u == last'.user
            a == last'.arg.start_date
            b == last'.arg.end_date
        IN /\ {study_plans'[i] : i \in InRange(study_plans', u, a, b)} = Range(last'.ret)
           /\ Cardinality(InRange(study_plans', u, a, b)) = Len(last'.ret)
           /\ \A i \in InRange(study_plans, u, a, b) :
                \A k \in InRange(study_plans', u, a, b) :
                  study_plans'[k].id # study_plans[i].id ]_vars

C8_Witness ==
  /\ last.op = "generate" /\ last.status = "ok"
  /\ Len(last.ret) > 0
  /\ last.user = demoUser.id
  /\ last.arg.start_date <= demoStudyPlansData[5].study_date
  /\ demoStudyPlansData[5].study_date <= last.arg.end_date
  /\ \A i \in 1..Len(study_plans) : study_plans[i].id # demoStudyPlansData[5].id

\* C9: the write of generate applies the replacement to the collection as it
\* is stored at that moment: what it stores is the stored sessions outside
\* the range followed by the new sessions, so no write made since generate
\* read the collection is lost.
C9_NoLostWrite ==
  [][ \A t \in Tabs :
        (tabs[t].pc = "g_setPlans" /\ tabs'[t].pc = "idle") =>
          study_plans' = allPlans(study_plans, tabs[t].user, tabs[t].planData, tabs[t].out)
    ]_vars

\* C10: generate by an owner with no subjects fails with the 'no subjects'
\* error and leaves every collection as it was.
C10_NoSubjects ==
  [][ (last'.op = "generate" /\ last'.user # NoToken
       /\ \A k \in 1..Len(subjects) : subjects[k].user_id # last'.user) =>
        /\ last'.status = "no_subjects"
        /\ UNCHANGED store ]_vars

C10_Witness ==
  /\ last.op = "generate" /\ last.status = "no_subjects"
  /\ last.user # NoToken
  /\ \A k \in 1..Len(subjects) : subjects[k].user_id # last.user

\* C11: generate called with endDate before startDate runs no iteration of
\* the day loop, creates no session and removes no stored session: the call
\* returns an empty list and study_plans is stored as it was.
C11_ReversedRange ==
  [][ (Returned("generate", "ok") /\ last'.arg.end_date < last'.arg.start_date) =>
        /\ last'.ret = <<>>
        /\ study_plans' = study_plans ]_vars

C11_Witness ==
  /\ last.op = "generate" /\ last.status = "ok"
  /\ last.arg.end_date < last.arg.start_date
  /\ last.ret = <<>>
  /\ \E i \in 1..Len(study_plans) :
       /\ study_plans[i].user_id = last.user
       /\ last.arg.end_date <= study_plans[i].study_date
       /\ study_plans[i].study_date <= last.arg.start_date

\* the hours of the entries of a returned allocation
HoursOf(out) == [k \in 1..Len(out) |-> out[k].hours]

\* context t has returned from an allocateStudyTime call over n subjects
\* with n in the set N
Allocated(t, N) == tabs[t].pc = "allocated" /\ Len(tabs[t].subs) \in N

\* the call of context t had totalHours >= n * 0.5
Affordable(t) == tabs[t].planData.totalHours >= Len(tabs[t].subs) * minHours

\* the call of context t ran the rescale pass
Rescaled(t) ==
  exceedsTotal(tabs[t].subs, tabs[t].exs, tabs[t].planData.totalHours,
               tabs[t].planData.currentDate)

\* C12: an allocation over exactly one subject returns exactly one entry,
\* for that subject, whose hours are the totalHours requested, whatever
\* exams the subject has.
C12_SingleSubject ==
  \A t \in Tabs :
    Allocated(t, {1}) =>
      /\ Len(tabs[t].out) = 1
      /\ tabs[t].out[1].subject = tabs[t].subs[1]
      /\ tabs[t].out[1].hours = tabs[t].planData.totalHours

C12_Witness ==
  \E t \in Tabs :
    /\ Allocated(t, {1})
    /\ \E e \in 1..Len(tabs[t].exs) :
         /\ tabs[t].exs[e].subject_id = tabs[t].subs[1].id
         /\ daysUntil(tabs[t].exs[e], tabs[t].planData.currentDate) <= 7
    /\ tabs[t].planData.totalHours % Quarter # 0
    /\ HoursOf(tabs[t].out) = <<tabs[t].planData.totalHours>>

\* C13: an allocation over n >= 2 subjects with totalHours >= n * 0.5 gives
\* every entry at least 0.5 h, whether or not the rescale pass runs.
C13_FloorPerSubject ==
  \A t \in Tabs :
    (Allocated(t, 2..MaxSubjects) /\ Affordable(t)) =>
      /\ Len(tabs[t].out) = Len(tabs[t].subs)
      /\ \A k \in 1..Len(tabs[t].out) : tabs[t].out[k].hours >= minHours

C13_Witness ==
  \E t \in Tabs :
    /\ Allocated(t, 2..MaxSubjects) /\ Affordable(t)
    /\ Rescaled(t)
    /\ tabs[t].out[Len(tabs[t].out)].hours = minHours
    /\ \E k \in 1..Len(tabs[t].out) : tabs[t].out[k].hours > minHours

\* C14: an allocation over n >= 2 subjects with totalHours >= n * 0.5
\* returns hours that sum to exactly totalHours.
C14_SumsToTotal ==
  \A t \in Tabs :
    (Allocated(t, 2..MaxSubjects) /\ Affordable(t)) =>
      Sum(HoursOf(tabs[t].out)) = tabs[t].planData.totalHours

\* C15: rounding to the nearest quarter-hour is idempotent: the rounded
\* value of a non-negative duration rounds to itself.
C15_QuantizeIdempotent ==
  \A t \in Tabs :
    tabs[t].pc = "quantized" =>
      RoundQuarter(tabs[t].out[1], 1) = tabs[t].out[1]

C15_Witness ==
  \E t \in Tabs :
    /\ tabs[t].pc = "quantized"
    /\ tabs[t].planData.num % (Quarter * tabs[t].planData.den) # 0
    /\ tabs[t].out[1] > 0
    /\ tabs[t].out[1] * tabs[t].planData.den > tabs[t].planData.num

\* the caller owns exactly two subjects, the first (Math) has its only exam
\* 3 days after the plan day, the second (Physics) has none, and the request
\* is for that one day with 4 h
MathPhysics(user, planData) ==
  LET subs == ownedBy(subjects, user)
      exs == ownedBy(exams, user)
  IN /\ Len(subs) = 2
     /\ Len(exs) = 1
     /\ exs[1].subject_id = subs[1].id
     /\ exs[1].exam_date = planData.start_date + 3
     /\ planData.end_date = planData.start_date
     /\ planData.daily_study_hours = 8 * minHours

\* C16: with subjects [Math, Physics], Math having an exam 3 days after the
\* plan day and Physics none, dailyHours = 4 and a one-day range, generate
\* creates exactly two sessions for that day, Math with 3.0 h and the exam
\* preparation topic, Physics with 1.0 h, summing to 4.0 h, and the rescale
\* pass does not run.
C16_MathPhysics ==
  [][ (Returned("generate", "ok") /\ MathPhysics(last'.user, last'.arg)) =>
        LET subs == ownedBy(subjects, last'.user)
            ret == last'.ret
            day == last'.arg.start_date
        IN /\ Len(ret) = 2
           /\ ret[1].subject_id = subs[1].id
           /\ ret[1].planned_hours = 6 * minHours
           /\ ret[1].topic = "exam_prep"
           /\ ret[2].subject_id = subs[2].id
           /\ ret[2].planned_hours = 2 * minHours
           /\ \A k \in 1..2 : ret[k].study_date = day
           /\ ret[1].planned_hours + ret[2].planned_hours = 8 * minHours
           /\ ~exceedsTotal(subs, ownedBy(exams, last'.user), 8 * minHours, DateOf(day))
           /\ {study_plans'[i] : i \in InRange(study_plans', last'.user, day, day)}
                = Range(ret) ]_vars

C16_Witness ==
  /\ last.op = "generate" /\ last.status = "ok"
  /\ MathPhysics(last.user, last.arg)
  /\ Len(last.ret) = 2
  /\ last.ret[1].planned_hours = 6 * minHours
  /\ last.ret[2].planned_hours = 2 * minHours
  /\ Cardinality(InRange(study_plans, last.user, last.arg.start_date, last.arg.end_date)) = 2

\* the owner's sessions userPlans hold a completed session dated day
CompletedOn(userPlans, day) ==
  \E k \in 1..Len(userPlans) :
    userPlans[k].study_date = day /\ userPlans[k].is_completed = TRUE

\* how far the stored history of an owner can reach back from today
HistoryDays(userPlans) == Len(userPlans) + 1

\* the number of consecutive days, from the day `from` backward, on each of
\* which the owner has a completed session
RunFrom(userPlans, from) ==
  CHOOSE k \in 0..HistoryDays(userPlans) :
    /\ \A j \in 0..(k - 1) : CompletedOn(userPlans, from - j)
    /\ ~CompletedOn(userPlans, from - k)

Min(a, b) == IF a < b THEN a ELSE b

C18_CompletedTerminal ==
  [][ last'.op \in {"complete", "update", "createProgress"} =>
        \A i \in 1..Len(study_plans) :
          study_plans[i].is_completed = TRUE =>
            \A k \in 1..Len(study_plans') :
              study_plans'[k].id = study_plans[i].id =>
                study_plans'[k].is_completed = TRUE ]_vars

\* the records of a collection that are not owned by user, in stored order
NotOwnedBy(items, user) == Filter(items, LAMBDA item : item.user_id # user)

\* everything the reads return to user in the current state
ReadsOf(user) ==
  getSubjects(subjects, user) \cup getExams(exams, subjects, user)
    \cup getStudyPlans(study_plans, subjects, user)
    \cup getTodayTasks(study_plans, subjects, user, now)
    \cup getProgress(progress, user)
    \cup getDashboardStats(subjects, exams, study_plans, progress, user, now)

\* C19: owner isolation: every read issued as A returns only entities owned
\* by A, and a generate, complete, update, delete or manual progress entry
\* issued as A leaves the stored entities of every other owner as they
\* were: none added, changed or removed.
C19_OwnerIsolation ==
  [][ (last'.user # NoToken
       /\ last'.op \in {"generate", "complete", "update", "delete", "createProgress"}) =>
        /\ \A x \in ReadsOf(last'.user) : x.user_id = last'.user
        /\ NotOwnedBy(subjects', last'.user) = NotOwnedBy(subjects, last'.user)
        /\ NotOwnedBy(exams', last'.user) = NotOwnedBy(exams, last'.user)
        /\ NotOwnedBy(study_plans', last'.user) = NotOwnedBy(study_plans, last'.user)
        /\ NotOwnedBy(progress', last'.user) = NotOwnedBy(progress, last'.user) ]_vars

SessionsOn(batch, d) == SelectSeq(batch, LAMBDA p : p.study_date = d)

\* the number of subjects of a day stated for n subjects and dailyHours
PerDay(n, dailyHours) == Min(n, dailyHours \div minHours)

\* C21: a successful generate emits, for every day of the range, exactly
\* min(number of subjects, floor(dailyHours / 0.5)) sessions of pairwise
\* distinct subjects, that number is at least 1, and every session is not
\* completed.
C21_SessionsPerDay ==
  [][(last'.op = "generate" /\ last'.status = "ok") =>
       LET planData == last'.arg
           k == PerDay(Len(ownedBy(subjects, last'.user)), planData.daily_study_hours)
       IN /\ k >= 1
          /\ \A d \in planData.start_date..planData.end_date :
               LET today == SessionsOn(last'.ret, d)
               IN /\ Len(today) = k
                  /\ Cardinality({today[i].subject_id : i \in DOMAIN today}) = k
                  /\ \A i \in DOMAIN today : ~today[i].is_completed]_vars

\* the same without the lower limit of 1
C21_SessionsPerDayFromZero ==
  [][(last'.op = "generate" /\ last'.status = "ok") =>
       LET planData == last'.arg
           k == PerDay(Len(ownedBy(subjects, last'.user)), planData.daily_study_hours)
       IN \A d \in planData.start_date..planData.end_date :
            LET today == SessionsOn(last'.ret, d)
            IN /\ Len(today) = k
               /\ Cardinality({today[i].subject_id : i \in DOMAIN today}) = k
               /\ \A i \in DOMAIN today : ~today[i].is_completed]_vars

\* a generate of 15 minutes a day returned no session
C21_Witness ==
  /\ last.op = "generate" /\ last.status = "ok"
  /\ last.arg.daily_study_hours < minHours
  /\ last.ret = <<>>
\* the ids of the subjects of the sessions of a batch dated from day d to e
SubjectsOn(batch, d, e) ==
  {batch[i].subject_id : i \in {x \in DOMAIN batch : batch[x].study_date \in d..e}}

\* the request of a generate that rotates: 1 <= subjectsPerDay < n
Rotating(user, planData) ==
  LET n == Len(ownedBy(subjects, user))
      k == PerDay(n, planData.daily_study_hours)
  IN 1 <= k /\ k < n

Classified(t) == tabs[t].pc = "classified"

\* whole days from the reference date to the date of an exam
DaysTo(exam, currentDate) == exam.exam_date - IsoDay(currentDate)

\* the day counts of the exams of a subject
DayCounts(exs, subject, currentDate) ==
  {DaysTo(exs[i], currentDate) : i \in {x \in DOMAIN exs : exs[x].subject_id = subject.id}}

\* the weight stated for a day count
Weight(days) == IF days <= 7 THEN 3 ELSE IF days <= 14 THEN 2 ELSE 1

\* C23: the weight of a subject is 3 when the days until its selected exam
\* is <= 7, 2 when it is <= 14 and 1 otherwise; a subject with no exams gets
\* weight 1 and the sentinel day count.
C23_UrgencyWeight ==
  \A t \in Tabs :
    Classified(t) =>
      /\ Len(tabs[t].out) = Len(tabs[t].subs)
      /\ \A i \in DOMAIN tabs[t].out :
           LET sp == tabs[t].out[i]
               counts == DayCounts(tabs[t].exs, tabs[t].subs[i], tabs[t].planData.currentDate)
           IN /\ sp.subject = tabs[t].subs[i]
              /\ counts = {} => (sp.priority = 1 /\ sp.daysUntilExam = NoExamDays)
              /\ counts # {} => /\ sp.daysUntilExam \in counts
                                /\ sp.priority = Weight(sp.daysUntilExam)

\* three subjects classified: exams 7 and 14 days ahead give 3 and 2, the
\* subject without an exam gets 1 and the sentinel
C23_Witness ==
  \E t \in Tabs :
    /\ Classified(t)
    /\ Len(tabs[t].out) = 3
    /\ \E i, j, k \in DOMAIN tabs[t].out :
         /\ tabs[t].out[i].daysUntilExam = 7 /\ tabs[t].out[i].priority = 3
         /\ tabs[t].out[j].daysUntilExam = 14 /\ tabs[t].out[j].priority = 2
         /\ tabs[t].out[k].daysUntilExam = NoExamDays /\ tabs[t].out[k].priority = 1
\* the least element of a non-empty set of integers
SetMin(S) == CHOOSE x \in S : \A y \in S : x <= y

\* C24: the classifier selects, among the exams of a subject, the one with
\* the smallest non-negative day count: an exam dated before the reference
\* date determines neither the weight, nor daysUntil, nor the exam
\* preparation label of the subject.
C24_NextExamSelected ==
  \A t \in Tabs :
    /\ Classified(t) =>
         \A i \in DOMAIN tabs[t].out :
           LET sp == tabs[t].out[i]
               counts == DayCounts(tabs[t].exs, tabs[t].subs[i], tabs[t].planData.currentDate)
               ahead == {c \in counts : c >= 0}
           IN IF ahead = {}
              THEN sp.daysUntilExam = NoExamDays /\ sp.priority = 1
              ELSE sp.daysUntilExam = SetMin(ahead) /\ sp.priority = Weight(SetMin(ahead))
    /\ Allocated(t, 2..MaxSubjects) =>
         \A i \in DOMAIN tabs[t].out :
           tabs[t].out[i].topic = "exam_prep" =>
             \E c \in DayCounts(tabs[t].exs, tabs[t].subs[i], tabs[t].planData.currentDate) :
               0 <= c /\ c <= 7

\* what the classifier selects: the smallest day count, negative ones included
C24_EarliestSelected ==
  \A t \in Tabs :
    Classified(t) =>
      \A i \in DOMAIN tabs[t].out :
        LET counts == DayCounts(tabs[t].exs, tabs[t].subs[i], tabs[t].planData.currentDate)
        IN counts # {} => tabs[t].out[i].daysUntilExam = SetMin(counts)

\* a subject whose exams are 2 days past and 8 days ahead is classified with
\* daysUntil -2 and weight 3
C24_Witness ==
  \E t \in Tabs :
    /\ Classified(t)
    /\ \E i \in DOMAIN tabs[t].out :
         /\ DayCounts(tabs[t].exs, tabs[t].subs[i], tabs[t].planData.currentDate) = {-2, 8}
         /\ tabs[t].out[i].daysUntilExam = -2
         /\ tabs[t].out[i].priority = 3
(***************************************************************************)
(* C25: planned durations                                                  *)
(***************************************************************************)
\* C25: every session emitted by generate has a planned duration that is a
\* whole multiple of 0.25 h, for any dailyHours and any number of subjects,
\* whether or not the rescale pass runs.
C25_QuarterMultiples ==
  (last.op = "generate" /\ last.status = "ok") =>
    \A i \in DOMAIN last.ret : last.ret[i].planned_hours % Quarter = 0

\* 1 h 18 min a day over two subjects: the rescale pass leaves 0.75 h and
\* 0.55 h
C25_Witness ==
  /\ last.op = "generate" /\ last.status = "ok"
  /\ last.arg.daily_study_hours = 2 * minHours + 6
  /\ last.arg.end_date = last.arg.start_date
  /\ Len(last.ret) = 2
  /\ last.ret[1].planned_hours = 3 * Quarter
  /\ last.ret[2].planned_hours = minHours + 1
(***************************************************************************)
(* C26: the priority tag of an exam                                        *)
(***************************************************************************)
\* subject, date, hours and topic of the sessions of a batch, in order
SessionTuples(batch) ==
  [i \in DOMAIN batch |->
     <<batch[i].subject_id, batch[i].study_date, batch[i].planned_hours, batch[i].topic>>]

C27_WithinBudget ==
  \A t \in Tabs :
    (Allocated(t, 2..MaxSubjects) /\ Affordable(t)) =>
      Sum(HoursOf(tabs[t].out)) <= tabs[t].planData.totalHours

\* 1.5 h over three subjects with exams 3 and 10 days ahead and none: the
\* rescale pass returns 0.75 h, 0.5 h and 0.5 h
C27_Witness ==
  \E t \in Tabs :
    /\ Allocated(t, {3}) /\ Affordable(t) /\ Rescaled(t)
    /\ tabs[t].planData.totalHours = 3 * minHours
    /\ HoursOf(tabs[t].out) = <<3 * Quarter, minHours, minHours>>
\* the weight stated for subject i of the call of context t
WeightOf(t, i) ==
  LET counts == DayCounts(tabs[t].exs, tabs[t].subs[i], tabs[t].planData.currentDate)
  IN IF counts = {} THEN 1 ELSE Weight(SetMin(counts))

\* C28: within one allocation over n >= 2 subjects, a subject with a
\* strictly larger weight is never given fewer hours than a subject with a
\* smaller weight, whatever their positions and whether or not the rescale
\* pass runs.
C28_WeightMonotone ==
  \A t \in Tabs :
    Allocated(t, 2..MaxSubjects) =>
      \A i, j \in DOMAIN tabs[t].out :
        WeightOf(t, i) > WeightOf(t, j) => tabs[t].out[i].hours >= tabs[t].out[j].hours
\* 1 h 33 min over three subjects, the first two with an exam 3 days ahead
\* and the third with none: the rescale pass returns 0.5 h, 0.5 h and 0.55 h
C28_Witness ==
  \E t \in Tabs :
    /\ Allocated(t, {3}) /\ Affordable(t) /\ Rescaled(t)
    /\ WeightOf(t, 1) = 3 /\ WeightOf(t, 2) = 3 /\ WeightOf(t, 3) = 1
    /\ DayCounts(tabs[t].exs, tabs[t].subs[1], tabs[t].planData.currentDate) = {3}
    /\ HoursOf(tabs[t].out) = <<minHours, minHours, minHours + 1>>
(***************************************************************************)
(* C29..C30: session ids                                                   *)
(***************************************************************************)
\* no two stored sessions share an id
UniqueIds(plans) ==
  \A i, j \in DOMAIN plans : i # j => plans[i].id # plans[j].id

\* C29: after any sequence of generate, deleteStudyPlan, updateStudyPlan and
\* complete calls by any owners, no two sessions in the stored collection
\* share an id.
C29_UniqueIds == UniqueIds(study_plans)

\* every call other than an update whose body carries an id keeps the ids
\* distinct, the ids a generate adds next to the sessions it keeps included
C29_UniqueUnlessRenumbered ==
  [][(UniqueIds(study_plans)
        /\ ~(last'.op = "update" /\ last'.status = "ok" /\ "id" \in DOMAIN last'.arg))
       => UniqueIds(study_plans')]_vars

\* an update stored a second session with the id of another one
C29_Witness ==
  /\ last.op = "update" /\ last.status = "ok"
  /\ "id" \in DOMAIN last.arg
  /\ Cardinality({i \in DOMAIN study_plans : study_plans[i].id = last.arg.id}) = 2

\* the stored sessions an automatically created Progress record can refer
\* to: same id, same owner, completed
Referents(plans, record) ==
  {i \in DOMAIN plans : /\ plans[i].id = record.study_plan_id
                        /\ plans[i].user_id = record.user_id
                        /\ plans[i].is_completed}

\* C30: in every reachable state each automatically created Progress record
\* refers, by session id, to a session that still exists, belongs to the
\* same owner and is completed.
C30_ProgressRefers ==
  \A j \in DOMAIN progress :
    progress[j].notes = "auto" => Referents(study_plans, progress[j]) # {}

\* a session was completed and then deleted: its Progress record names an
\* id no stored session has
C30_Witness ==
  /\ last.op = "delete" /\ last.status = "ok"
  /\ \E j \in DOMAIN progress :
       /\ progress[j].notes = "auto"
       /\ progress[j].study_plan_id = last.id
       /\ \A i \in DOMAIN study_plans : study_plans[i].id # last.id
====
